---- MODULE Spec2Model ----
(***************************************************************************)
(* Model of package gs (TV4/gs): Appender.Append and its helpers, run by   *)
(* concurrent callers against one Google Storage bucket.                   *)
(*                                                                         *)
(* Durations are in minutes.  The code reads the clock in four places      *)
(* only, and each reading is a test that turns true once and stays true:   *)
(* the caller's deadline has passed (ctx.Done, d.Before(time.Now())), the  *)
(* deadline of the loop's context has passed, and NextBackOff has found    *)
(* more than its MaxElapsedTime elapsed.  The state holds these tests'     *)
(* answers per call, and the passing of time (Elapse) turns them true in   *)
(* an order the durations allow.  A sleep between two attempts is a state  *)
(* in which time may or may not pass.                                      *)
(*                                                                         *)
(* Strings the code computes with (locators, object names) are sequences   *)
(* of one-character strings; object contents are sequences of tokens.      *)
(*                                                                         *)
(* BucketPrefixObject, ObjectsSince and ObjectsBefore keep no state: LibSpec *)
(* is one call of one of them, with its input and result in `query`.       *)
(***************************************************************************)
EXTENDS Integers, Sequences, FiniteSets, TLC

\* ------------------------------------------------------------------ bounds

\* the callers of Append, and the payload each one appends
Calls == {1, 2}
\* how many store requests may fail with a transport/store error
MaxFaults == 1
\* how many events of the environment a run has: failed requests and
\* deadlines that pass
MaxEvents == 2
\* the least value time.Now().Nanosecond() takes in the model
FirstNano == 7
\* the most "/"-separated segments a locator given to BucketPrefixObject has
MaxSegs == 4
\* the most objects the bucket of a listing holds
MaxObjects == 3

\* ------------------------------------------------------------------ strings

Letters == <<"a", "b", "c", "d">>
DigitChar == <<"0", "1", "2", "3", "4", "5", "6", "7", "8", "9">>

\* fmt.Sprintf("%d", n) for n >= 0
RECURSIVE Itoa(_)
Itoa(n) == IF n < 10 THEN <<DigitChar[n + 1]>>
           ELSE Itoa(n \div 10) \o <<DigitChar[(n % 10) + 1]>>

HasPrefix(s, p) == Len(s) >= Len(p) /\ SubSeq(s, 1, Len(p)) = p

\* strings.TrimPrefix
TrimPrefix(s, p) == IF HasPrefix(s, p) THEN SubSeq(s, Len(p) + 1, Len(s)) ELSE s

\* strings.Split(s, sep) for a one-character separator
RECURSIVE SplitFrom(_, _, _)
SplitFrom(s, sep, cur) ==
    IF s = <<>> THEN <<cur>>
    ELSE IF Head(s) = sep THEN <<cur>> \o SplitFrom(Tail(s), sep, <<>>)
    ELSE SplitFrom(Tail(s), sep, Append(cur, Head(s)))

Split(s, sep) == SplitFrom(s, sep, <<>>)

\* the elements joined by "/"
RECURSIVE JoinSlash(_)
JoinSlash(elems) ==
    IF elems = <<>> THEN <<>>
    ELSE IF Len(elems) = 1 THEN Head(elems)
    ELSE Head(elems) \o <<"/">> \o JoinSlash(Tail(elems))

\* filepath.Clean's pass over the segments of a path that is not rooted:
\* empty and "." segments are dropped, ".." takes back the segment before it
\* unless there is none or it is ".." itself
RECURSIVE CleanSegs(_, _)
CleanSegs(segs, kept) ==
    IF segs = <<>> THEN kept
    ELSE LET g == Head(segs) IN
         IF g = <<>> \/ g = <<".">> THEN CleanSegs(Tail(segs), kept)
         ELSE IF g = <<".", ".">> /\ kept # <<>> /\ kept[Len(kept)] # <<".", ".">>
              THEN CleanSegs(Tail(segs), SubSeq(kept, 1, Len(kept) - 1))
         ELSE CleanSegs(Tail(segs), Append(kept, g))

\* filepath.Clean of a path that is not rooted; "." when nothing is left
Clean(path) ==
    LET kept == CleanSegs(Split(path, "/"), <<>>)
    IN  IF kept = <<>> THEN <<".">> ELSE JoinSlash(kept)

\* filepath.Join: empty elements are ignored, the rest joined by "/" and
\* cleaned; the empty string when every element is empty
Join(elems) ==
    LET full == SelectSeq(elems, LAMBDA e : e # <<>>)
    IN  IF full = <<>> THEN <<>> ELSE Clean(JoinSlash(full))

Scheme == <<"g", "s", ":", "/", "/">>

\* gs://b/p/n : bucket b, prefix p, object n
GoodURL == Scheme \o <<"b", "/", "p", "/", "n">>
\* gs://b : a bucket and no object
BadURL == Scheme \o <<"b">>

URLs == {GoodURL, BadURL}

\* BucketPrefixObject(url)
BucketPrefixObject(url) ==
    LET path == TrimPrefix(url, Scheme)
        c == Split(path, "/")
    IN  IF Len(c) < 2
        THEN [bkt |-> <<>>, prefix |-> <<>>, obj |-> <<>>, err |-> TRUE]
        ELSE [bkt |-> c[1],
              prefix |-> IF Len(c) > 2 THEN Join(SubSeq(c, 2, Len(c) - 1)) ELSE <<>>,
              obj |-> c[Len(c)],
              err |-> FALSE]

\* a *storage.ObjectHandle; nil is the nil pointer
NilHandle == [nil |-> TRUE, bucket |-> <<>>, object |-> <<>>]
Handle(bkt, name) == [nil |-> FALSE, bucket |-> bkt, object |-> name]

GzSuffix == <<".", "g", "z">>

\* (objects with the suffix left off the destination)
objectsPlainDestination(url, gzip, nano) ==
    LET r == BucketPrefixObject(url)
        path == Join(<<r.prefix, r.obj>>)
        tmpPath == path \o <<".">> \o Itoa(nano)
    IN  IF r.err
        THEN [tmpObj |-> NilHandle, obj |-> NilHandle, err |-> TRUE]
        ELSE [tmpObj |-> Handle(r.bkt, IF gzip THEN tmpPath \o GzSuffix ELSE tmpPath),
              obj |-> Handle(r.bkt, path),
              err |-> FALSE]

\* objects(c, url, gzip), with nano the value of time.Now().Nanosecond()
objects(url, gzip, nano) ==
    LET r == BucketPrefixObject(url)
        path == Join(<<r.prefix, r.obj>>)
        tmpPath == path \o <<".">> \o Itoa(nano)
    IN  IF r.err
        THEN [tmpObj |-> NilHandle, obj |-> NilHandle, err |-> TRUE]
        ELSE [tmpObj |-> Handle(r.bkt, IF gzip THEN tmpPath \o GzSuffix ELSE tmpPath),
              obj |-> Handle(r.bkt, IF gzip THEN path \o GzSuffix ELSE path),
              err |-> FALSE]

\* compress(data, gz): one gzip member around the data
compress(data, gz) == IF gz THEN <<"gz[">> \o data \o <<"]">> ELSE data

\* the payload of caller i
Payload(i) == <<Letters[i]>>

\* ------------------------------------------------------------------ time

\* time.Minute * 10, the value Append uses when MaxBackoff is zero
TenMinutes == 10
\* backoff.DefaultMaxElapsedTime (15 minutes), what NewExponentialBackOff sets
DefaultMaxElapsedTime == 15
\* the values of Appender.MaxBackoff: unset (ten minutes, below the library's
\* limit) and above the library's limit
MaxBackoffs == {0, 20}

\* a context.Context: whether it has a deadline, and whether that has passed
Background == [has |-> FALSE, past |-> FALSE]
WithDeadline == [has |-> TRUE, past |-> FALSE]
\* the contexts a caller passes to Append
Ctxs == {Background, WithDeadline}

\* ------------------------------------------------------------------ state

VARIABLES
    appender,   \* the Appender: [MaxBackoff, Gzip]
    store,      \* the bucket: the objects that exist, one per handle
    lastGen,    \* per object name, the last generation the store has given it
    faults,     \* store requests that have failed with a transport/store error
    expiries,   \* deadlines that have passed
    call,       \* per caller: the locals of its Append call and its position
    query       \* the last call of another function of the package, and its result

vars == <<appender, store, lastGen, faults, expiries, call, query>>

\* no other function of the package has been called
NoQuery == [op |-> "none", in |-> <<>>, out |-> <<>>]

\* no request of a call has reached the store
NoOps == [write |-> 0, read |-> 0, create |-> 0, run |-> 0, applied |-> 0,
          composed |-> 0, del |-> 0]

Idle == [pc |-> "idle", url |-> <<>>, ctx |-> Background, data |-> <<>>,
         tmpObj |-> NilHandle, obj |-> NilHandle,
         loopCtx |-> Background, stop |-> FALSE, after |-> {},
         attr |-> 0, pattr |-> "", err |-> "nil", ops |-> NoOps]

\* the content an object that exists before any call holds
OldContent == <<"x">>

\* an object of the bucket, with the attributes the code reads
Object(h, content, gen, enc) ==
    [h |-> h, content |-> content, generation |-> gen, contentEncoding |-> enc]

\* The Appenders of the model.  The code reads MaxBackoff only for the loop's
\* budget (Append's maxBackoff) and Gzip only in compress and objects, so
\* each value of the one is run with one value of the other: every
\* MaxBackoff and both values of Gzip occur.
Appenders == {[MaxBackoff |-> m, Gzip |-> (m # 0)] : m \in MaxBackoffs}

Init ==
    /\ appender \in Appenders
    /\ store \in {{}, {Object(objects(GoodURL, appender.Gzip, 0).obj, OldContent, 1, "")}}
    /\ lastGen = {[h |-> o.h, n |-> o.generation] : o \in store}
    /\ faults = 0
    /\ expiries = 0
    /\ call = [i \in Calls |-> Idle]
    /\ query = NoQuery

\* ------------------------------------------------------------------ the store

Exists(h) == \E o \in store : o.h = h

\* the object behind a handle that exists
Get(h) == CHOOSE o \in store : o.h = h

\* the context's deadline has passed: a request under it fails before it is sent
CtxDone(ctx) == ctx.has /\ ctx.past

\* the generation the store gives to the next object written under the name
\* of h: one the name has not had before
NextGen(h) == IF \E g \in lastGen : g.h = h THEN (CHOOSE g \in lastGen : g.h = h).n + 1 ELSE 1

\* a writer's Close or a Composer's Run: the object is replaced, whatever it
\* was, under a new generation
Put(h, content, enc) == {o \in store : o.h # h} \cup {Object(h, content, NextGen(h), enc)}

\* lastGen after an object has been written under the name of h
Bump(h) == {g \in lastGen : g.h # h} \cup {[h |-> h, n |-> NextGen(h)]}

\* Delete
Remove(h) == {o \in store : o.h # h}

\* the content a Composer stores: the sources' contents in the order given
RECURSIVE Concat(_)
Concat(srcs) == IF srcs = <<>> THEN <<>> ELSE Get(Head(srcs)).content \o Concat(Tail(srcs))

\* a request may still fail
CanFail == faults < MaxFaults /\ faults + expiries < MaxEvents

\* ------------------------------------------------------------------ Append

\* The values time.Now().Nanosecond() can take in a call that begins now.  Only
\* whether two calls read the same value matters, so a call reads either a
\* value an earlier call has read or the least value none has.
Nanos ==
    LET begun == {i \in Calls : call[i].pc # "idle" /\ ~call[i].tmpObj.nil}
    IN  FirstNano .. (FirstNano + Cardinality(begun))

Set(i, rec) == call' = [call EXCEPT ![i] = rec]

Count(c, op) == [c EXCEPT !.ops = [c.ops EXCEPT ![op] = @ + 1]]

\* an Attrs request of the call has reached the store
Read(c) == [c EXCEPT !.ops = [c.ops EXCEPT !.read = 1]]

\* Append returns e: the locals of compose and of the loop are gone, and
\* whether the caller's deadline passes is of no interest any more
Return(c, e) == [c EXCEPT !.pc = "done", !.err = e, !.attr = 0, !.pattr = "",
                          !.loopCtx = Background, !.stop = FALSE, !.after = {},
                          !.ctx.past = FALSE]

\* maxBackoff of Append
EffectiveMaxBackoff == IF appender.MaxBackoff = 0 THEN TenMinutes ELSE appender.MaxBackoff

\* Append up to the first store request: NewClient, compress, objects.  The
\* error of objects is dropped; with nil handles tmpObj.NewWriter dereferences
\* a nil pointer and the call panics.
Begin(i) ==
    /\ call[i].pc = "idle"
    /\ \A j \in Calls : j < i => call[j].pc # "idle"
    /\ \E url \in URLs, ctx \in Ctxs, nano \in Nanos :
        LET o == objects(url, appender.Gzip, nano)
            c == [call[i] EXCEPT !.url = url, !.ctx = ctx,
                                 !.data = compress(Payload(i), appender.Gzip),
                                 !.tmpObj = o.tmpObj, !.obj = o.obj]
        IN  \/ /\ o.tmpObj.nil
               /\ Set(i, Return(c, "panic"))
            \/ /\ ~o.tmpObj.nil
               /\ Set(i, [c EXCEPT !.pc = "write"])
    /\ UNCHANGED <<query, appender, store, lastGen, faults, expiries>>

\* writeToObj(ctx, tmpObj, data)
WriteTmp(i) ==
    LET c == call[i] IN
    /\ c.pc = "write"
    /\ \/ /\ CtxDone(c.ctx)
          /\ Set(i, Return(c, "ctx"))
          /\ UNCHANGED <<store, lastGen, faults>>
       \/ /\ ~CtxDone(c.ctx)
          /\ CanFail
          /\ faults' = faults + 1
          /\ Set(i, Return(Count(c, "write"), "store"))
          /\ \/ UNCHANGED <<store, lastGen>>
             \/ /\ store' = Put(c.tmpObj, c.data, "")
                /\ lastGen' = Bump(c.tmpObj)
       \/ /\ ~CtxDone(c.ctx)
          /\ store' = Put(c.tmpObj, c.data, "")
          /\ lastGen' = Bump(c.tmpObj)
          /\ Set(i, [Count(c, "write") EXCEPT !.pc = "probe"])
          /\ UNCHANGED faults
    /\ UNCHANGED <<query, appender, expiries>>

\* obj.Attrs(ctx): does the object yet exist?
Probe(i) ==
    LET c == call[i] IN
    /\ c.pc = "probe"
    /\ \/ /\ CtxDone(c.ctx)
          /\ Set(i, Return(c, "ctx"))
          /\ UNCHANGED faults
       \/ /\ ~CtxDone(c.ctx)
          /\ CanFail
          /\ faults' = faults + 1
          /\ Set(i, Return(Read(c), "store"))
       \/ /\ ~CtxDone(c.ctx)
          /\ Set(i, [Read(c) EXCEPT !.pc = IF Exists(c.obj) THEN "check" ELSE "create"])
          /\ UNCHANGED faults
    /\ UNCHANGED <<query, appender, store, lastGen, expiries>>

\* obj.NewWriter(ctx).Close(): an empty object, written with no precondition
Create(i) ==
    LET c == call[i] IN
    /\ c.pc = "create"
    /\ \/ /\ CtxDone(c.ctx)
          /\ Set(i, Return(c, "ctx"))
          /\ UNCHANGED <<store, lastGen, faults>>
       \/ /\ ~CtxDone(c.ctx)
          /\ CanFail
          /\ faults' = faults + 1
          /\ Set(i, Return(Count(c, "create"), "store"))
          /\ \/ UNCHANGED <<store, lastGen>>
             \/ /\ store' = Put(c.obj, <<>>, "")
                /\ lastGen' = Bump(c.obj)
       \/ /\ ~CtxDone(c.ctx)
          /\ store' = Put(c.obj, <<>>, "")
          /\ lastGen' = Bump(c.obj)
          /\ Set(i, [Count(c, "create") EXCEPT !.pc = "check"])
          /\ UNCHANGED faults
    /\ UNCHANGED <<query, appender, expiries>>

\* caller i is in the retry loop
InLoop(i) == call[i].pc \in {"attrs", "pattrs", "run", "delete"}

\* (a deadline check that sees a missing deadline only)
TimedOutZeroOnly(ctx) == ~ctx.has

\* `d, _ := ctx.Deadline(); d.Before(time.Now())`: d is the zero time when
\* ctx has no deadline, and the zero time is before every reading of the clock
TimedOut(ctx) == IF ctx.has THEN ctx.past ELSE TRUE

\* (a loop context without the timeout)
LoopCtxNone(c) == Background

\* context.WithTimeout(context.Background(), maxBackoff): the context compose
\* runs under, with a deadline of its own and none of the caller's
LoopCtx(c) == WithDeadline

\* The deadline check, then the loop's context and backoff.Retry's b.Reset().
\* bckoff, which carries maxBackoff, is not the policy Retry is given.
Check(i) ==
    LET c == call[i] IN
    /\ c.pc = "check"
    /\ IF TimedOut(c.ctx)
       THEN Set(i, Return(c, "timeout"))
       ELSE Set(i, [c EXCEPT !.pc = "attrs", !.loopCtx = LoopCtx(c), !.stop = FALSE,
                             !.after = {j \in Calls : InLoop(j)}])
    /\ UNCHANGED <<query, appender, store, lastGen, faults, expiries>>

\* ------------------------------------------------------------------ compose

\* the sources of `obj.If(cond).ComposerFrom(pobj, obj)`, in the order given
ComposeSources(c) == <<c.tmpObj, c.obj>>

\* (a compose without the condition)
NoPrecondition(c) == Exists(c.obj)

\* cond: GenerationMatch of the generation compose has just read
GenerationMatches(c) == Exists(c.obj) /\ Get(c.obj).generation = c.attr

\* the ExponentialBackOff given to Retry is a new one: NextBackOff returns
\* Stop once more than DefaultMaxElapsedTime has passed since Reset
NextBackOffStop(c) == c.stop

\* (a failed attempt that goes on to delete the temporary object)
FailedCleanup(c, e) == [c EXCEPT !.pc = "delete", !.err = e, !.attr = 0, !.pattr = ""]

\* backoff.Retry after op has returned the error e, not a Permanent one:
\* give up with e when NextBackOff is Stop, else sleep and call op again
Failed(c, e) ==
    IF NextBackOffStop(c)
    THEN Return(c, e)
    ELSE [c EXCEPT !.pc = "attrs", !.err = e, !.attr = 0, !.pattr = ""]

\* compose: obj.Attrs(ctx), after the sleep of a retry if this is one
Attrs(i) ==
    LET c == call[i] IN
    /\ c.pc = "attrs"
    /\ \/ /\ CtxDone(c.loopCtx)
          /\ Set(i, Return(c, "ctx"))
          /\ UNCHANGED faults
       \/ /\ ~CtxDone(c.loopCtx)
          /\ CanFail
          /\ faults' = faults + 1
          /\ Set(i, Return(Read(c), "store"))
       \/ /\ ~CtxDone(c.loopCtx)
          /\ ~Exists(c.obj)
          /\ Set(i, Return(Read(c), "notfound"))
          /\ UNCHANGED faults
       \/ /\ ~CtxDone(c.loopCtx)
          /\ Exists(c.obj)
          /\ Set(i, [Read(c) EXCEPT !.pc = "pattrs", !.attr = Get(c.obj).generation])
          /\ UNCHANGED faults
    /\ UNCHANGED <<query, appender, store, lastGen, expiries>>

\* compose: pobj.Attrs(ctx)
PAttrs(i) ==
    LET c == call[i] IN
    /\ c.pc = "pattrs"
    /\ \/ /\ CtxDone(c.loopCtx)
          /\ Set(i, Return(c, "ctx"))
          /\ UNCHANGED faults
       \/ /\ ~CtxDone(c.loopCtx)
          /\ CanFail
          /\ faults' = faults + 1
          /\ Set(i, Return(Read(c), "store"))
       \/ /\ ~CtxDone(c.loopCtx)
          /\ ~Exists(c.tmpObj)
          /\ Set(i, Return(Read(c), "notfound"))
          /\ UNCHANGED faults
       \/ /\ ~CtxDone(c.loopCtx)
          /\ Exists(c.tmpObj)
          /\ Set(i, [Read(c) EXCEPT !.pc = "run",
                                              !.pattr = Get(c.tmpObj).contentEncoding])
          /\ UNCHANGED faults
    /\ UNCHANGED <<query, appender, store, lastGen, expiries>>

\* compose: composer.Run(ctx).  Its error is returned as it is, so Retry
\* calls compose again whatever the error was.
Run(i) ==
    LET c == call[i]
        n == Count(c, "run")
        applied == Put(c.obj, Concat(ComposeSources(c)), c.pattr)
    IN
    /\ c.pc = "run"
    /\ \/ /\ CtxDone(c.loopCtx)
          /\ Set(i, Failed(c, "ctx"))
          /\ UNCHANGED <<store, lastGen, faults>>
       \/ \* a transport/store error, the request lost
          /\ ~CtxDone(c.loopCtx)
          /\ CanFail
          /\ faults' = faults + 1
          /\ Set(i, Failed(n, "store"))
          /\ UNCHANGED <<store, lastGen>>
       \/ \* a transport/store error, the response lost
          /\ ~CtxDone(c.loopCtx)
          /\ CanFail
          /\ Exists(c.tmpObj)
          /\ GenerationMatches(c)
          /\ faults' = faults + 1
          /\ store' = applied
          /\ lastGen' = Bump(c.obj)
          /\ Set(i, Failed(Count(n, "applied"), "store"))
       \/ /\ ~CtxDone(c.loopCtx)
          /\ ~Exists(c.tmpObj)
          /\ Set(i, Failed(n, "notfound"))
          /\ UNCHANGED <<store, lastGen, faults>>
       \/ /\ ~CtxDone(c.loopCtx)
          /\ Exists(c.tmpObj)
          /\ ~GenerationMatches(c)
          /\ Set(i, Failed(n, "precond"))
          /\ UNCHANGED <<store, lastGen, faults>>
       \/ /\ ~CtxDone(c.loopCtx)
          /\ Exists(c.tmpObj)
          /\ GenerationMatches(c)
          /\ store' = applied
          /\ lastGen' = Bump(c.obj)
          /\ Set(i, [Count(Count(n, "applied"), "composed") EXCEPT !.pc = "delete"])
          /\ UNCHANGED faults
    /\ UNCHANGED <<query, appender, expiries>>

\* compose: pobj.Delete(ctx), and with it the return of compose, Retry and Append
Delete(i) ==
    LET c == call[i]
        n == Count(c, "del")
    IN
    /\ c.pc = "delete"
    /\ \/ /\ CtxDone(c.loopCtx)
          /\ Set(i, Return(c, "ctx"))
          /\ UNCHANGED <<store, faults>>
       \/ /\ ~CtxDone(c.loopCtx)
          /\ CanFail
          /\ faults' = faults + 1
          /\ Set(i, Return(n, "store"))
          /\ \/ UNCHANGED store
             \/ store' = Remove(c.tmpObj)
       \/ /\ ~CtxDone(c.loopCtx)
          /\ ~Exists(c.tmpObj)
          /\ Set(i, Return(n, "notfound"))
          /\ UNCHANGED <<store, faults>>
       \/ /\ ~CtxDone(c.loopCtx)
          /\ Exists(c.tmpObj)
          /\ store' = Remove(c.tmpObj)
          /\ Set(i, Return(n, "nil"))
          /\ UNCHANGED faults
    /\ UNCHANGED <<query, appender, lastGen, expiries>>

\* ------------------------------------------------------------------ the system

\* the callers in the loop that entered it before caller i
Earlier(i) == {j \in call[i].after : InLoop(j)}

\* the deadline the caller gave to call i passes
CallerDeadline(i) ==
    /\ call[i].pc \notin {"idle", "done"}
    /\ call[i].ctx.has
    /\ ~call[i].ctx.past
    /\ call' = [call EXCEPT ![i].ctx.past = TRUE]

\* maxBackoff has elapsed since call i made the loop's context: after the
\* library's MaxElapsedTime if that is the shorter, and after the same has
\* happened to the calls that entered the loop before i
LoopDeadline(i) ==
    /\ InLoop(i)
    /\ ~call[i].loopCtx.past
    /\ DefaultMaxElapsedTime < EffectiveMaxBackoff => call[i].stop
    /\ \A j \in Earlier(i) : call[j].loopCtx.past
    /\ call' = [call EXCEPT ![i].loopCtx.past = TRUE]

\* DefaultMaxElapsedTime has elapsed since Retry reset the backoff of call i
StopTime(i) ==
    /\ InLoop(i)
    /\ ~call[i].stop
    /\ EffectiveMaxBackoff < DefaultMaxElapsedTime => call[i].loopCtx.past
    /\ \A j \in Earlier(i) : call[j].stop
    /\ call' = [call EXCEPT ![i].stop = TRUE]

\* time passes
Elapse ==
    /\ faults + expiries < MaxEvents
    /\ expiries' = expiries + 1
    /\ \E i \in Calls :
        \/ CallerDeadline(i)
        \/ LoopDeadline(i)
        \/ StopTime(i)
    /\ UNCHANGED <<query, appender, store, lastGen, faults>>

\* one step of caller i
Step(i) ==
    \/ Begin(i)
    \/ WriteTmp(i)
    \/ Probe(i)
    \/ Create(i)
    \/ Check(i)
    \/ Attrs(i)
    \/ PAttrs(i)
    \/ Run(i)
    \/ Delete(i)

Next ==
    \/ Elapse
    \/ \E i \in Calls : Step(i)

Spec == Init /\ [][Next]_vars

\* One configuration of the Appender, and callers that take their steps: each
\* call is a running goroutine or process.
LiveInit == Init /\ appender = [MaxBackoff |-> 0, Gzip |-> FALSE]

LiveSpec == LiveInit /\ [][Next]_vars /\ \A i \in Calls : WF_vars(Step(i))

\* ------------------------------------------------------------------ the other functions

\* the "/"-separated segments of the locators: names, ".", ".." and the empty one
Segs == {<<"a">>, <<"c">>, <<".">>, <<".", ".">>, <<>>}

\* the segment lists of the locators
Parts == UNION {[1..n -> Segs] : n \in 1..MaxSegs}

\* the locator gs://s1/s2/.../sn
Locator(parts) == Scheme \o JoinSlash(parts)

\* a caller calls BucketPrefixObject(url)
CallBucketPrefixObject ==
    /\ query = NoQuery
    /\ \E parts \in Parts :
          query' = [op |-> "BucketPrefixObject",
                    in |-> [url |-> Locator(parts), parts |-> parts],
                    out |-> BucketPrefixObject(Locator(parts))]
    /\ UNCHANGED <<appender, store, lastGen, faults, expiries, call>>

\* ---- ObjectsSince, ObjectsBefore

DigitVal(ch) == CHOOSE k \in 0..9 : DigitChar[k + 1] = ch
IsDigit(ch) == \E k \in 1..10 : DigitChar[k] = ch

\* the number a string of digits writes
RECURSIVE Atoi(_)
Atoi(ds) == IF ds = <<>> THEN 0 ELSE 10 * Atoi(SubSeq(ds, 1, Len(ds) - 1)) + DigitVal(ds[Len(ds)])

IsLeap(y) == (y % 4 = 0 /\ y % 100 # 0) \/ y % 400 = 0

DaysIn(y, m) ==
    IF m = 2 THEN (IF IsLeap(y) THEN 29 ELSE 28)
    ELSE IF m \in {4, 6, 9, 11} THEN 30 ELSE 31

\* the days from 1970-01-01 to the day y-m-d of the Gregorian calendar
DaysFromCivil(y, m, d) ==
    LET yy == IF m <= 2 THEN y - 1 ELSE y
        era == yy \div 400
        yoe == yy - era * 400
        mp == (m + 9) % 12
        doy == (153 * mp + 2) \div 5 + d - 1
        doe == yoe * 365 + yoe \div 4 - yoe \div 100 + doy
    IN  era * 146097 + doe - 719468

\* A time.Time, to the hour: the date and hour its location's clock shows, and
\* the location's offset from UTC in hours.
Time(y, m, d, h, off) == [year |-> y, month |-> m, day |-> d, hour |-> h, offset |-> off]

\* the instant of a time.Time, in hours since 1970-01-01 00:00 UTC
Instant(t) == DaysFromCivil(t.year, t.month, t.day) * 24 + t.hour - t.offset

\* time.Parse(dateLayout, s) for a string of eight digits: the date at
\* midnight UTC, or an error when month or day are out of range
ParseDate(s) ==
    LET y == Atoi(SubSeq(s, 1, 4))
        m == Atoi(SubSeq(s, 5, 6))
        d == Atoi(SubSeq(s, 7, 8))
    IN  IF m \in 1..12 /\ d >= 1 /\ d <= DaysIn(y, m)
        THEN [err |-> FALSE, t |-> Time(y, m, d, 0, 0)]
        ELSE [err |-> TRUE, t |-> Time(0, 1, 1, 0, 0)]

\* time.Date(dt.Year(), dt.Month(), dt.Day(), 0, 0, 0, 0, dt.Location())
Midnight(dt) == Time(dt.year, dt.month, dt.day, 0, dt.offset)

\* cmp of ObjectsSince: d.After(dt) || d.Equal(dt)
CmpSince(d, dt) == Instant(d) > Instant(dt) \/ Instant(d) = Instant(dt)

\* cmp of ObjectsBefore: d.Before(dt)
CmpBefore(d, dt) == Instant(d) < Instant(dt)

\* The patterns of the model are <lit>(\d{8}) for a literal text lit.
\* matcher.FindStringSubmatch(name): the leftmost match and its group, or
\* nothing
FindStringSubmatch(lit, name) ==
    LET n == Len(lit)
        at == {k \in 1..Len(name) + 1 :
                  /\ k + n + 7 <= Len(name)
                  /\ SubSeq(name, k, k + n - 1) = lit
                  /\ \A j \in (k + n)..(k + n + 7) : IsDigit(name[j])}
    IN  IF at = {} THEN <<>>
        ELSE LET k == CHOOSE x \in at : \A z \in at : x <= z
             IN  <<SubSeq(name, k, k + n + 7), SubSeq(name, k + n, k + n + 7)>>

\* the bytes of the characters of the object names
CharCode(ch) == IF IsDigit(ch) THEN 48 + DigitVal(ch)
                ELSE IF ch = "o" THEN 111 ELSE IF ch = "x" THEN 120 ELSE 46

\* a < b for Go strings
RECURSIVE StrLess(_, _)
StrLess(a, b) ==
    IF b = <<>> THEN FALSE
    ELSE IF a = <<>> THEN TRUE
    ELSE IF Head(a) # Head(b) THEN CharCode(Head(a)) < CharCode(Head(b))
    ELSE StrLess(Tail(a), Tail(b))

\* sort.Strings
RECURSIVE Insert(_, _)
Insert(x, sorted) ==
    IF sorted = <<>> THEN <<x>>
    ELSE IF StrLess(x, Head(sorted)) THEN <<x>> \o sorted
    ELSE <<Head(sorted)>> \o Insert(x, Tail(sorted))

RECURSIVE SortStrings(_)
SortStrings(xs) == IF xs = <<>> THEN <<>> ELSE Insert(Head(xs), SortStrings(Tail(xs)))

\* the loop of filterObjects over the objects the iterator returns, then the sort
RECURSIVE FilterLoop(_, _, _, _, _)
FilterLoop(listing, lit, dt, since, objs) ==
    IF listing = <<>> THEN [objs |-> SortStrings(objs), err |-> FALSE]
    ELSE LET name == Head(listing)
             m == FindStringSubmatch(lit, name)
         IN  IF Len(m) # 2 THEN FilterLoop(Tail(listing), lit, dt, since, objs)
             ELSE LET d == ParseDate(m[2]) IN
                  IF d.err THEN [objs |-> <<>>, err |-> TRUE]
                  ELSE IF (IF since THEN CmpSince(d.t, dt) ELSE CmpBefore(d.t, dt))
                       THEN FilterLoop(Tail(listing), lit, dt, since, Append(objs, name))
                       ELSE FilterLoop(Tail(listing), lit, dt, since, objs)

\* filterObjects(bkt, prefix, pattern, dt, cmp), with listing what the
\* iterator of the bucket returns for the prefix
filterObjects(listing, lit, dt, since) == FilterLoop(listing, lit, Midnight(dt), since, <<>>)

\* the names of the objects a bucket may hold: dates of three months, a name
\* of another stem, one with seven digits, one with a day no month has
ObjectNames ==
    { <<"o", "2", "0", "1", "7", "0", "1", "0", "1">>,
      <<"o", "2", "0", "1", "7", "0", "1", "0", "2">>,
      <<"o", "2", "0", "1", "7", "0", "2", "0", "1">>,
      <<"x", "2", "0", "1", "7", "0", "1", "0", "2">>,
      <<"o", "2", "0", "1", "7", "0", "1", "0">>,
      <<"o", "2", "0", "1", "7", "0", "2", "3", "0">> }

\* the objects of a bucket in an order the store may list them in
Listings ==
    UNION {{f \in [1..n -> ObjectNames] : \A i, j \in 1..n : i # j => f[i] # f[j]} : n \in 0..MaxObjects}

\* the literal texts of the patterns, and the prefixes of the queries
Literals == {<<"o">>, <<>>}
Prefixes == {<<>>, <<"o">>}

\* the cutoffs: a day, a time of day and a location (UTC, east and west of it)
Cutoffs ==
    {Time(2017, md[1], md[2], h, off) :
        md \in {<<1, 1>>, <<1, 2>>, <<2, 1>>}, h \in {0, 13}, off \in {0, 2, 0 - 5}}

\* what c.Bucket(bkt).Objects(ctx, &storage.Query{Prefix: prefix}) lists
Listed(bucket, prefix) == SelectSeq(bucket, LAMBDA name : HasPrefix(name, prefix))

\* the call of ObjectsSince or ObjectsBefore and what it returns
ListingCall(since, bucket, prefix, lit, dt) ==
    [op |-> IF since THEN "ObjectsSince" ELSE "ObjectsBefore",
     in |-> [listing |-> Listed(bucket, prefix), lit |-> lit, dt |-> dt],
     out |-> filterObjects(Listed(bucket, prefix), lit, dt, since)]

\* a caller calls ObjectsSince(bkt, prefix, pattern, dt)
ObjectsSince ==
    /\ query = NoQuery
    /\ \E bucket \in Listings, prefix \in Prefixes, lit \in Literals, dt \in Cutoffs :
          query' = ListingCall(TRUE, bucket, prefix, lit, dt)
    /\ UNCHANGED <<appender, store, lastGen, faults, expiries, call>>

\* a caller calls ObjectsBefore(bkt, prefix, pattern, dt)
ObjectsBefore ==
    /\ query = NoQuery
    /\ \E bucket \in Listings, prefix \in Prefixes, lit \in Literals, dt \in Cutoffs :
          query' = ListingCall(FALSE, bucket, prefix, lit, dt)
    /\ UNCHANGED <<appender, store, lastGen, faults, expiries, call>>

\* The functions of the package that keep no state between calls: one call of
\* one of them with any of the inputs (a second call would start from the same
\* state as the first); no Append runs.
LibInit ==
    /\ appender = [MaxBackoff |-> 0, Gzip |-> FALSE]
    /\ store = {}
    /\ lastGen = {}
    /\ faults = 0
    /\ expiries = 0
    /\ call = [i \in Calls |-> Idle]
    /\ query = NoQuery

LibNext ==
    \/ CallBucketPrefixObject
    \/ ObjectsSince
    \/ ObjectsBefore

LibSpec == LibInit /\ [][LibNext]_vars

\* ------------------------------------------------------------------ what the claims speak of

\* the destination of GoodURL
Dest == objects(GoodURL, appender.Gzip, FirstNano).obj

\* the content of the destination (nothing while it does not exist)
DestContent == IF Exists(Dest) THEN Get(Dest).content ELSE <<>>

\* Append of caller i has returned, and returned nil
Done(i) == call[i].pc = "done"
Ok(i) == Done(i) /\ call[i].err = "nil"

\* what caller i writes to its temporary object
Data(i) == compress(Payload(i), appender.Gzip)

\* how often the payload of caller i occurs in the destination
Occurrences(i) ==
    LET d == Data(i)
        s == DestContent
    IN  Cardinality({k \in 1..Len(s) : k + Len(d) - 1 <= Len(s) /\ SubSeq(s, k, k + Len(d) - 1) = d})

\* the sum of the lengths of the callers' payloads
RECURSIVE TotalLen(_)
TotalLen(S) == IF S = {} THEN 0
               ELSE LET i == CHOOSE x \in S : TRUE IN Len(Data(i)) + TotalLen(S \ {i})

\* nothing has gone wrong in the environment: no request failed, no deadline passed
Calm == faults = 0 /\ expiries = 0

\* ------------------------------------------------------------------ claims

\* C1: once all concurrent Append calls to one destination have returned
\* successfully (here: in a run where no request failed and no deadline
\* passed), the destination holds every payload exactly once and nothing
\* besides the payloads and what it held before, and none of the calls'
\* temporary objects exists.
C1_AllPayloadsOnce ==
    (Calm /\ \A i \in Calls : Ok(i)) =>
        /\ \A i \in Calls : Occurrences(i) = 1 /\ ~Exists(call[i].tmpObj)
        /\ Len(DestContent) - TotalLen(Calls) \in {0, Len(OldContent)}

\* C2: while caller 1 appends and no other caller has begun, the destination
\* holds its content of before the call or that content followed by the
\* payload.
C2_ContentThenPayload ==
    (Calm /\ \A j \in Calls \ {1} : call[j].pc = "idle") =>
        DestContent \in {<<>>, OldContent, Data(1), OldContent \o Data(1)}

\* caller i has lost a generation race and is about to retry
Lost(i) == call[i].pc = "attrs" /\ call[i].err = "precond"

\* a condition C3 sets aside has occurred: a deadline has passed, or a request
\* has failed with an error other than a failed generation precondition
Excused == faults > 0 \/ expiries > 0 \/ \E j \in Calls : call[j].err = "notfound"

\* C3: unless a deadline passes or the store returns an error other than a
\* failed precondition, a call that has lost a generation race eventually
\* returns success, and its payload is eventually in the destination.
C3_LosersSucceed ==
    \A i \in Calls :
        /\ Lost(i) ~> (Excused \/ Ok(i))
        /\ Lost(i) ~> (Excused \/ Occurrences(i) >= 1)

\* the step is one of caller i's Append, not the passing of time
Acts(i) == call'[i].pc # call[i].pc

\* a compose request of caller i reaches the store in the step
Composes(i) == call'[i].ops.run > call[i].ops.run

\* C4: no compose request reaches the store once maxBackoff (MaxBackoff, or
\* ten minutes when that is zero) has elapsed since the loop began, and from
\* then on every step of the call ends in a deadline error: it returns it, or
\* hands it to Retry, whose next attempt returns it.
C4_LoopBoundedByMaxBackoff ==
    [][\A i \in Calls :
        /\ Composes(i) => ~call[i].loopCtx.past
        /\ (InLoop(i) /\ call[i].loopCtx.past /\ Acts(i)) =>
              /\ call'[i].err = "ctx"
              /\ call'[i].pc \in {"done", "attrs"}
              /\ store' = store]_vars

\* C4 witness: with MaxBackoff above the library's limit, a call that has lost
\* a race has returned the deadline error
C4_Witness ==
    \E i \in Calls :
        /\ appender.MaxBackoff > DefaultMaxElapsedTime
        /\ Done(i) /\ call[i].err = "ctx"
        /\ call[i].ops.run >= 1 /\ call[i].ops.applied = 0

\* C5: no compose request reaches the store after the caller's deadline has
\* passed.
C5_CallerDeadlineBoundsLoop ==
    [][\A i \in Calls : Composes(i) => ~CtxDone(call[i].ctx)]_vars

\* C6: when the caller's deadline has passed as Append comes to the check
\* before the loop, Append returns the timeout error, the store is left as it
\* is, and no compose request of the call has reached or will reach the store.
C6_DeadlineBeforeLoop ==
    [][\A i \in Calls :
        /\ (call[i].pc = "check" /\ CtxDone(call[i].ctx) /\ Acts(i)) =>
              /\ call'[i].pc = "done"
              /\ call'[i].err = "timeout"
              /\ call'[i].ops = call[i].ops
              /\ store' = store
        /\ (Done(i) /\ call[i].err = "timeout") =>
              /\ call[i].ops.run = 0 /\ call[i].ops.del = 0
              /\ call'[i] = call[i]]_vars

\* C6 witness: a call whose context has a deadline has returned the timeout error
C6_Witness ==
    \E i \in Calls : Done(i) /\ call[i].err = "timeout" /\ call[i].ctx.has /\ call[i].ops.write = 1

\* C7: Append with a locator that has no bucket and object returns a
\* configuration error.
C7_ConfigError ==
    \A i \in Calls :
        (Done(i) /\ BucketPrefixObject(call[i].url).err) => call[i].err = "config"

\* C8: a compose request made with a generation the destination no longer has
\* leaves the store as it is, and the call retries (or gives up, the backoff
\* having stopped) and reads the generation anew; a request that succeeds was
\* made with the destination's generation and replaces the destination once,
\* under a new generation.
C8_PreconditionHolds ==
    [][\A i \in Calls :
        /\ (call[i].pc = "run" /\ Acts(i)) =>
              LET c == call[i]
                  match == Exists(c.obj) /\ Get(c.obj).generation = c.attr
              IN  /\ ~match =>
                        /\ store' = store
                        /\ call'[i].ops.applied = c.ops.applied
                        /\ \/ call'[i].pc = "attrs" /\ call'[i].attr = 0
                           \/ call'[i].pc = "done" /\ c.stop
                  /\ store' # store =>
                        /\ match
                        /\ call'[i].ops.applied = c.ops.applied + 1
                        /\ {o \in store' : o.h # c.obj} = {o \in store : o.h # c.obj}
                        /\ \E o \in store' : o.h = c.obj /\ o.generation > c.attr
                  /\ call'[i].pc = "delete" => store' # store
        /\ call[i].pc = "run" => call[i].attr # 0
        /\ call[i].pc = "attrs" => call[i].attr = 0]_vars

\* C8 witness: a call has lost a race, read the generation again and composed
C8_Witness ==
    \E i \in Calls : faults = 0 /\ call[i].ops.run >= 2 /\ call[i].ops.composed = 1

\* C9: a store error in the retry loop that is not a failed precondition ends
\* the call at once.
C9_OnlyContentionRetried ==
    [][\A i \in Calls :
        (InLoop(i) /\ Acts(i) /\ faults' > faults) =>
            call'[i].pc = "done" /\ call'[i].err = "store"]_vars

\* C10: a call writes its temporary object once, before anything else; it
\* deletes it once at most, and only after a compose of its own has succeeded;
\* when it returns success the object does not exist, and when it returns
\* without a compose having succeeded it has sent no delete.
C10_TemporaryLifecycle ==
    [][\A i \in Calls :
        LET c == call[i] IN
        /\ c.ops.write <= 1
        /\ c.pc \notin {"idle", "write", "done"} => c.ops.write = 1
        /\ call'[i].ops.write > c.ops.write => c.pc = "write"
        /\ c.ops.del <= 1
        /\ c.ops.del = 1 => c.ops.composed >= 1
        /\ call'[i].ops.del > c.ops.del => c.pc = "delete"
        /\ c.pc = "delete" => c.ops.composed >= 1
        /\ (Acts(i) /\ Exists(c.tmpObj) /\ c.pc # "delete") =>
              \E o \in store' : o.h = c.tmpObj
        /\ (Acts(i) /\ call'[i].pc = "done" /\ call'[i].err = "nil") =>
              /\ c.pc = "delete"
              /\ ~\E o \in store' : o.h = c.tmpObj]_vars

\* C10 witness: two calls have returned, one with success and its temporary
\* object gone, one with an error and its temporary object still there
C10_Witness ==
    \E i, j \in Calls :
        /\ Ok(i) /\ call[i].ops.del = 1 /\ ~Exists(call[i].tmpObj)
        /\ Done(j) /\ call[j].err # "nil" /\ call[j].ops.write = 1
        /\ call[j].ops.composed = 0 /\ Exists(call[j].tmpObj)

\* C11: with Gzip enabled, the temporary object Append has written carries
\* the gzip content-encoding, and after a successful Append the destination
\* carries it too.
C11_GzipEncoding ==
    appender.Gzip =>
        \A i \in Calls :
            /\ (call[i].ops.write = 1 /\ Exists(call[i].tmpObj)) =>
                  Get(call[i].tmpObj).contentEncoding = "gzip"
            /\ (Ok(i) /\ Exists(call[i].obj)) =>
                  Get(call[i].obj).contentEncoding = "gzip"

HasSuffix(s, x) == Len(s) >= Len(x) /\ SubSeq(s, Len(s) - Len(x) + 1, Len(s)) = x

\* the text of a locator after its scheme, bucket and the "/" behind the bucket
PathOf(url) ==
    LET rest == SubSeq(url, Len(Scheme) + 1, Len(url))
        slash == CHOOSE k \in 1..Len(rest) : rest[k] = "/" /\ \A j \in 1..(k - 1) : rest[j] # "/"
    IN  SubSeq(rest, slash + 1, Len(rest))

\* C12: for gs://bucket/prefix/name, with Gzip enabled the destination is
\* prefix/name.gz and the temporary object's name is prefix/name.<token>.gz,
\* and no object without the suffix is ever in the bucket; with Gzip disabled
\* the names are prefix/name and prefix/name.<token>, and no object of the
\* bucket carries the suffix.
C12_SuffixedObjectsOnly ==
    LET sfx == IF appender.Gzip THEN GzSuffix ELSE <<>> IN
    /\ \A i \in Calls :
          (call[i].pc # "idle" /\ ~call[i].tmpObj.nil) =>
              LET path == PathOf(call[i].url) IN
              /\ call[i].obj.object = path \o sfx
              /\ HasPrefix(call[i].tmpObj.object, path \o <<".">>)
              /\ HasSuffix(call[i].tmpObj.object, sfx)
              /\ HasSuffix(call[i].tmpObj.object, GzSuffix) <=> appender.Gzip
              /\ call[i].tmpObj.object # call[i].obj.object
    /\ \A o \in store :
          /\ HasSuffix(o.h.object, GzSuffix) <=> appender.Gzip
          /\ \/ o.h.object = PathOf(GoodURL) \o sfx
             \/ \E i \in Calls : call[i].pc # "idle" /\ o.h = call[i].tmpObj

\* C12 witness: with Gzip enabled a call has composed and returned success,
\* and the destination p/n.gz holds its payload
C12_Witness ==
    \E i \in Calls :
        /\ appender.Gzip /\ Ok(i)
        /\ \E o \in store : o.h.object = <<"p", "/", "n", ".", "g", "z">> /\ o.content # <<>>

\* C13: BucketPrefixObject returns an error exactly when the locator has fewer
\* than two "/"-separated segments after the scheme; for gs://b/s1/.../sk/name
\* with no segment empty it returns the bucket b, the prefix s1/.../sk (empty
\* when k = 0) and the name.
C13_Decomposition ==
    query.op = "BucketPrefixObject" =>
        LET parts == query.in.parts
            n == Len(parts)
            r == query.out
        IN  /\ r.err <=> n < 2
            /\ (n >= 2 /\ \A k \in 1..n : parts[k] # <<>>) =>
                  /\ r.bkt = parts[1]
                  /\ r.prefix = JoinSlash(SubSeq(parts, 2, n - 1))
                  /\ r.obj = parts[n]

\* the date yyyymmdd as a number: of the day a cutoff's own clock shows, and
\* of the eight digits a pattern has captured
DateOf(dt) == dt.year * 10000 + dt.month * 100 + dt.day
Captured(lit, name) == Atoi(FindStringSubmatch(lit, name)[2])

\* C14: when ObjectsSince or ObjectsBefore returns a result, it holds exactly
\* the listed names that match the pattern and whose captured date is on or
\* after the cutoff's date (ObjectsSince) or before it (ObjectsBefore), each
\* once and in lexicographic order, whatever the order of the listing.
C14_DateFilteredListing ==
    (query.op \in {"ObjectsSince", "ObjectsBefore"} /\ ~query.out.err) =>
        LET q == query.in
            r == query.out.objs
            wanted == {q.listing[k] : k \in {k \in 1..Len(q.listing) :
                          /\ FindStringSubmatch(q.lit, q.listing[k]) # <<>>
                          /\ IF query.op = "ObjectsSince"
                             THEN Captured(q.lit, q.listing[k]) >= DateOf(q.dt)
                             ELSE Captured(q.lit, q.listing[k]) < DateOf(q.dt)}}
        IN  /\ {r[k] : k \in 1..Len(r)} = wanted
            /\ Len(r) = Cardinality(wanted)
            /\ \A j, k \in 1..Len(r) : j < k => StrLess(r[j], r[k])

\* C15: in every state, whatever requests have failed, the payload of a call
\* occurs in the destination once at most, and no call has had more than one
\* compose applied by the store.
C15_AtMostOnce ==
    \A i \in Calls :
        /\ call[i].ops.applied <= 1
        /\ Occurrences(i) <= 1

\* the content of the destination in the bucket st (nothing while it does
\* not exist), and whether it holds the payload of caller i
ContentIn(st) == IF \E o \in st : o.h = Dest THEN (CHOOSE o \in st : o.h = Dest).content ELSE <<>>
Holds(st, i) ==
    LET d == Data(i)
        s == ContentIn(st)
    IN  \E k \in 1..Len(s) : k + Len(d) - 1 <= Len(s) /\ SubSeq(s, k, k + Len(d) - 1) = d

\* C16: a payload that is in the destination stays in it: no step of any call
\* takes it out again.
C16_NothingLost ==
    [][\A i \in Calls : Holds(store, i) => Holds(store', i)]_vars

\* caller i is in an Append call that has named its objects and not returned
InFlight(i) == call[i].pc \notin {"idle", "done"} /\ ~call[i].tmpObj.nil

\* C17: no two calls that are in flight at the same time for the same
\* destination use the same temporary object.
C17_TemporaryExclusive ==
    \A i, j \in Calls :
        (i # j /\ InFlight(i) /\ InFlight(j) /\ call[i].obj = call[j].obj) =>
            call[i].tmpObj # call[j].tmpObj

\* C18: a call whose context has no deadline is not failed by the check before
\* the loop: a call that has returned the timeout error had a deadline.
C18_NoDeadlineNoTimeout ==
    \A i \in Calls : (Done(i) /\ call[i].err = "timeout") => call[i].ctx.has

\* C19: when the delete of the temporary object fails after a compose of the
\* call has succeeded (the object is not deleted and Append gets an error),
\* Append returns the error with no further compose, the destination holds
\* the call's payload exactly once, and the temporary object still exists.
C19_DeleteFailureIsTerminal ==
    [][\A i \in Calls :
        (call[i].pc = "delete" /\ Acts(i) /\ call'[i].err # "nil" /\ store' = store) =>
            /\ call'[i].pc = "done"
            /\ call'[i].ops.run = call[i].ops.run
            /\ Occurrences(i) = 1
            /\ Exists(call[i].tmpObj)]_vars

\* Append of caller i returns from the retry loop with its budget exhausted:
\* with the deadline error of the loop's context, or, the backoff having
\* stopped, with the failed precondition of its last attempt
Exhausted(i) ==
    /\ InLoop(i) /\ Acts(i) /\ call'[i].pc = "done"
    /\ \/ call'[i].err = "ctx"
       \/ call[i].pc = "run" /\ call[i].stop /\ call'[i].err = "precond"

\* C20: when Append returns from the retry loop with its budget exhausted, no
\* compose of the call has been applied and the destination holds nothing of
\* the call's payload.
C20_ExhaustedLeavesDestination ==
    [][\A i \in Calls :
        Exhausted(i) => (call'[i].ops.applied = 0 /\ ~Holds(store', i))]_vars

\* C21: whatever the cutoff's time of day and location, a listed name that
\* matches the pattern and whose captured date is the cutoff's own calendar
\* date is in the result of ObjectsSince and is not in the result of
\* ObjectsBefore.
C21_CalendarDateOnly ==
    (query.op \in {"ObjectsSince", "ObjectsBefore"} /\ ~query.out.err) =>
        LET q == query.in
            r == query.out.objs
        IN  \A k \in 1..Len(q.listing) :
                (/\ FindStringSubmatch(q.lit, q.listing[k]) # <<>>
                 /\ Captured(q.lit, q.listing[k]) = DateOf(q.dt)) =>
                    ((query.op = "ObjectsSince") <=> (\E j \in 1..Len(r) : r[j] = q.listing[k]))

====
